---- MODULE Spec2Model ----
(***************************************************************************)
(* Model of the dual-mode narrative orchestrator (GameMaster) of the       *)
(* Post-Magic RPG: game_master.py with the MemoryManager / EventManager of *)
(* systems.py, the response parser of AI_model.py and the world loader of  *)
(* loader.py.                                                              *)
(*                                                                         *)
(* Strings that the code transforms (strip, int, str, concatenation) are   *)
(* sequences of tokens; the token " " is a whitespace character.  Scene    *)
(* ids are plain strings, they are only compared and used as keys.         *)
(* The session log of NarrativeLogger is write-only and left out, and so   *)
(* is the wall-clock timestamp of the snapshot.                            *)
(***************************************************************************)
EXTENDS Integers, Sequences, FiniteSets, TLC

VARIABLES scenes, player, history_window, snapshot, global_turn_count,
          in_dynamic_mode, saved_target_scene_id, target_scene_text, last

vars == <<scenes, player, history_window, snapshot, global_turn_count,
          in_dynamic_mode, saved_target_scene_id, target_scene_text, last>>

----------------------------------------------------------------------------
(* Bounds and program constants *)

\* run_turn calls the model explores past the turn budget
ExtraCalls == 0

\* GameMaster.__init__ sets max_turns = 20; the model runs the same budget
\* rule with a budget small enough to explore every session exhaustively
max_turns == 3

HISTORY_CAPACITY == 5

HP_MAX == 100

STORY_TEXT_LIMIT == 500

----------------------------------------------------------------------------
(* Python values *)

NoneId == "<None>"

NoneText == <<"<None>">>

NoInput == <<>>

Whitespace == {" "}

RECURSIVE lstrip(_)
lstrip(s) == IF s # <<>> /\ Head(s) \in Whitespace THEN lstrip(Tail(s)) ELSE s

RECURSIVE rstrip(_)
rstrip(s) ==
    IF s # <<>> /\ s[Len(s)] \in Whitespace
    THEN rstrip(SubSeq(s, 1, Len(s) - 1)) ELSE s

\* str.strip()
strip(s) == rstrip(lstrip(s))

Digits == [tok \in {"1", "2", "9"} |-> CASE tok = "1" -> 1 [] tok = "2" -> 2 [] OTHER -> 9]

\* int(player_input) succeeds: surrounding whitespace is ignored
IsNumeric(s) == Len(strip(s)) = 1 /\ strip(s)[1] \in DOMAIN Digits

\* int(player_input)
int(s) == Digits[strip(s)[1]]

\* str(choice_id)
str(n) == <<CHOOSE tok \in DOMAIN Digits : Digits[tok] = n>>

Min(S) == CHOOSE x \in S : \A y \in S : x <= y

Max2(a, b) == IF a >= b THEN a ELSE b

Min2(a, b) == IF a <= b THEN a ELSE b

----------------------------------------------------------------------------
(* The theme: world.json and events.json as the loader hands them over *)

Option(id, text, next_scene_id) ==
    [id |-> id, text |-> text, next_scene_id |-> next_scene_id]

Scene(id, text, is_end, options) ==
    [id |-> id, text |-> text, is_end |-> is_end, options |-> options]

AuthoredIds == {"start", "hall", "end_good", "ai_takeover_lab"}

InitialSceneId == "start"

WorldScenes ==
    [sid \in AuthoredIds |->
        CASE sid = "start" ->
               Scene(sid, <<"You wake in the hub.">>, FALSE,
                     << Option(1, <<"go north">>, "hall"),
                        Option(2, <<"enter the lab", " ">>, "ai_takeover_lab") >>)
          [] sid = "hall" ->
               Scene(sid, <<"A long hall.">>, FALSE,
                     << Option(1, <<"open the door">>, "end_good"),
                        Option(2, <<"go back">>, "start") >>)
          [] sid = "end_good" ->
               Scene(sid, <<"The end.">>, TRUE, <<>>)
          [] OTHER ->
               Scene(sid, <<"The lab hums.">>, FALSE, <<>>)]

\* ids matched by the takeover naming convention of _run_mode_a
TakeoverIds == {"ai_takeover_lab"}

WorldPlayer ==
    [current_scene_id |-> InitialSceneId, inventory |-> <<>>,
     hp |-> 50, mana |-> 50, bullet |-> 5, credits |-> 50]

StatNames == {"hp", "mana", "bullet", "credits"}

NoEffect == [s \in {} |-> 0]

Effect(stat, delta) == [s \in {stat} |-> delta]

\* probability is in percent
Triggers ==
    << [event_id |-> "hall_trap", condition |-> "hall", probability |-> 100,
        narrative_description |-> <<"A trap snaps.">>, result |-> Effect("hp", -10)],
       [event_id |-> "hall_vent", condition |-> "hall", probability |-> 50,
        narrative_description |-> <<"Warm steam soothes.">>, result |-> Effect("hp", 60)],
       [event_id |-> "lab_hum", condition |-> "ai_takeover_lab", probability |-> 100,
        narrative_description |-> <<"The lab drains you.">>, result |-> Effect("mana", -5)] >>

\* values random.random() can draw, in percent
RandomDraws == {50, 99}

----------------------------------------------------------------------------
(* The generation bridge: what the service sends and how it is parsed *)

FallbackSceneId == "fallback"

DefaultStoryText == <<"The story continues...">>

\* an option label as parse_gm_response yields it: no id or target of its own
Label(text) == Option(0, text, NoneId)

DefaultOptions == << Label(<<"Continue.">>), Label(<<"Look around.">>), Label(<<"Press on.">>) >>

GenOptions ==
    << Option(1, <<"press on", " ">>, "dynamic_await"),
       Option(2, <<"turn back">>, "start") >>

GenText == <<" ", "The pipes murmur.">>

Payload(kind, id, story_text, options, game_over, reached, stats) ==
    [kind |-> kind, id |-> id, story_text |-> story_text, options |-> options,
     game_over |-> game_over, reached |-> reached, stats |-> stats]

\* well-formed payloads: an open continuation, one that reports the anchor
\* reached, an ending that also reports it, a plain ending, and one that
\* reuses the id of an authored scene and carries a stat change
OkPayloads ==
    { Payload("ok", "g1", GenText, GenOptions, FALSE, FALSE, NoEffect),
      Payload("ok", "g1", GenText, GenOptions, FALSE, TRUE, NoEffect),
      Payload("ok", "g1", GenText, GenOptions, TRUE, TRUE, NoEffect),
      Payload("ok", "g1", GenText, <<>>, TRUE, FALSE, NoEffect),
      Payload("ok", "hall", GenText, <<>>, FALSE, FALSE, Effect("hp", 60)) }

\* payloads that are not the expected shape: prose instead of JSON, and
\* {"id":"x","text":...,"isEnd":false,"options":"not-an-array"}
BadPayloads ==
    { Payload("unparsable", NoneId, <<"I cannot comply.">>, <<>>, FALSE, FALSE, NoEffect),
      Payload("bad_options", "x", <<"A corrupt tale.">>, <<>>, FALSE, FALSE, NoEffect) }

\* the request itself fails: timeout or transport error
RaisePayload == Payload("raise", NoneId, <<>>, <<>>, FALSE, FALSE, NoEffect)

NoPayload == Payload("none", NoneId, <<>>, <<>>, FALSE, FALSE, NoEffect)

Payloads == OkPayloads \cup BadPayloads \cup {RaisePayload}

Take(s, n) == SubSeq(s, 1, Min2(Len(s), n))

RECURSIVE PadOptions(_, _)
PadOptions(options, game_over) ==
    IF Len(options) < 3 /\ ~game_over
    THEN PadOptions(Append(options, Label(<<"Continue.">>)), game_over)
    ELSE options

parse_gm_response(raw) ==
    IF raw.kind = "unparsable"
    THEN [story_text |-> IF raw.story_text # <<>>
                         THEN Take(raw.story_text, STORY_TEXT_LIMIT)
                         ELSE DefaultStoryText,
          options |-> DefaultOptions, game_over |-> FALSE, stats |-> NoEffect]
    ELSE [story_text |-> IF raw.story_text # <<>> THEN raw.story_text
                         ELSE DefaultStoryText,
          options |-> PadOptions(Take(IF raw.kind = "bad_options"
                                      THEN DefaultOptions ELSE raw.options, 3),
                                 raw.game_over),
          game_over |-> raw.game_over, stats |-> raw.stats]

\* the scene object _run_mode_b receives, built from the parsed response
SceneFromResponse(raw, resp) ==
    [id |-> IF raw.kind = "ok" THEN raw.id ELSE FallbackSceneId,
     text |-> resp.story_text,
     is_end |-> resp.game_over,
     options |-> [i \in 1..Len(resp.options) |->
                    Option(IF resp.options[i].id = 0 THEN i ELSE resp.options[i].id,
                           resp.options[i].text,
                           IF resp.options[i].next_scene_id = NoneId
                           THEN "dynamic_await" ELSE resp.options[i].next_scene_id)],
     reached_target_plot |-> (raw.kind = "ok" /\ raw.reached),
     stat_changes |-> resp.stats]

\* [raised, scene]: the request raises, or the parsed response comes back
call_ai_game_master(raw) ==
    IF raw.kind = "raise"
    THEN [raised |-> "APIError", scene |-> SceneFromResponse(NoPayload, parse_gm_response(NoPayload))]
    ELSE [raised |-> "", scene |-> SceneFromResponse(raw, parse_gm_response(raw))]

----------------------------------------------------------------------------
(* MemoryManager and EventManager (systems.py) *)

\* variant: a full window drops the entry just added
evict_newest(window) ==
    IF Len(window) > HISTORY_CAPACITY THEN SubSeq(window, 1, Len(window) - 1) ELSE window

\* if len(self.history_window) > 5: self.history_window.pop(0)
evict_oldest(window) ==
    IF Len(window) > HISTORY_CAPACITY THEN Tail(window) ELSE window

\* variant: the response is stored as given
add_interaction_unstripped(window, user_input, game_response) ==
    evict_oldest(Append(window, [action |-> user_input, result |-> game_response]))

add_interaction(window, user_input, game_response) ==
    evict_oldest(Append(window, [action |-> user_input, result |-> strip(game_response)]))

NoFile == [kind |-> "absent"]

EmptySnapshot == [kind |-> "empty"]

save_snapshot(p, current_scene_id, recent_history, turn_count) ==
    [kind |-> "snapshot",
     player_state |-> [hp |-> p.hp, mana |-> p.mana, bullet |-> p.bullet,
                       credits |-> p.credits, inventory |-> p.inventory],
     current_location |-> current_scene_id,
     recent_history |-> recent_history,
     turn_count |-> turn_count]

\* variant: the scene the player stands on is not compared
check_triggers_any_scene(scene_id, draws) ==
    SelectSeq([i \in 1..Len(Triggers) |->
                  [fired |-> draws[i] <= Triggers[i].probability,
                   result |-> Triggers[i].result,
                   description |-> Triggers[i].narrative_description]],
              LAMBDA e : e.fired)

\* what open("w") does in the save_snapshot of _select_option and in that of
\* _run_mode_b: "" when it succeeds, else the exception it raises
DiskOk == [select |-> "", absorb |-> ""]

DiskOutcomes ==
    { DiskOk, [select |-> "OSError", absorb |-> ""], [select |-> "", absorb |-> "OSError"] }

\* the file after save_snapshot: the new document, or the file as it was
\* when the open failed
written_file(file, doc, outcome) == IF outcome = "" THEN doc ELSE file

\* draws[i] is the value random.random() yields if trigger i is examined
check_triggers(scene_id, draws) ==
    SelectSeq([i \in 1..Len(Triggers) |->
                  [fired |-> Triggers[i].condition = scene_id
                             /\ draws[i] <= Triggers[i].probability,
                   result |-> Triggers[i].result,
                   description |-> Triggers[i].narrative_description]],
              LAMBDA e : e.fired)

DrawSeqs == [1..Len(Triggers) -> RandomDraws]

----------------------------------------------------------------------------
(* GameMaster (game_master.py).  A method is an operator from the object   *)
(* (self) and its arguments to the object after the call, the value it     *)
(* returns and the exception it raises ("" when it returns normally).      *)

Self ==
    [scenes |-> scenes, player |-> player, history_window |-> history_window,
     snapshot |-> snapshot, global_turn_count |-> global_turn_count,
     in_dynamic_mode |-> in_dynamic_mode,
     saved_target_scene_id |-> saved_target_scene_id,
     target_scene_text |-> target_scene_text]

HasCurrentScene(self) == self.player.current_scene_id \in DOMAIN self.scenes

get_current_scene(self) == self.scenes[self.player.current_scene_id]

clamp_stat(stat, new_val) ==
    IF stat = "hp" THEN Max2(0, Min2(HP_MAX, new_val)) ELSE Max2(0, new_val)

\* variant: every stat is brought within its bounds, named or not
_apply_effect_clamp_all(p, effect) ==
    [f \in DOMAIN p |->
        IF f \in StatNames
        THEN clamp_stat(f, p[f] + (IF f \in DOMAIN effect THEN effect[f] ELSE 0))
        ELSE p[f]]

_apply_effect(p, effect) ==
    [f \in DOMAIN p |->
        IF f \in DOMAIN effect /\ effect[f] # 0
        THEN clamp_stat(f, p[f] + effect[f])
        ELSE p[f]]

\* variant: the effects are applied from the last fired trigger to the first
RECURSIVE apply_all_reversed(_, _)
apply_all_reversed(p, fired) ==
    IF fired = <<>> THEN p
    ELSE _apply_effect(apply_all_reversed(p, Tail(fired)), Head(fired).result)

\* the order in which the stats of an effect map are visited
StatOrder == <<"hp", "mana", "bullet", "credits">>

\* variant: the hook hears of every stat the effect names
notifications_every_stat(effect, hooked) ==
    IF ~hooked THEN <<>>
    ELSE LET named == SelectSeq(StatOrder, LAMBDA st : st \in DOMAIN effect)
         IN  [k \in 1..Len(named) |->
                [prefix |-> IF effect[named[k]] > 0 THEN "+" ELSE "",
                 delta |-> effect[named[k]], stat |-> named[k]]]

\* the calls on_stat_change receives from one _apply_effect, if a hook is
\* registered: the text is prefix, delta and the capitalised stat name
notifications(effect, hooked) ==
    IF ~hooked THEN <<>>
    ELSE LET named == SelectSeq(StatOrder,
                                LAMBDA st : st \in DOMAIN effect /\ effect[st] # 0)
         IN  [k \in 1..Len(named) |->
                [prefix |-> IF effect[named[k]] > 0 THEN "+" ELSE "",
                 delta |-> effect[named[k]], stat |-> named[k]]]

\* [player, notified]: _apply_effect of an orchestrator with or without hook
_apply_effect_with_hook(p, effect, hooked) ==
    [player |-> _apply_effect(p, effect), notified |-> notifications(effect, hooked)]

RECURSIVE apply_all(_, _)
apply_all(p, fired) ==
    IF fired = <<>> THEN p ELSE apply_all(_apply_effect(p, Head(fired).result), Tail(fired))

\* [self, descriptions]
_handle_events(self, draws) ==
    LET fired == check_triggers(self.player.current_scene_id, draws)
    IN  [self |-> [self EXCEPT !.player = apply_all(self.player, fired)],
         descriptions |-> [i \in 1..Len(fired) |-> fired[i].description]]

\* variant: every move spends a bullet
move_player_spend_bullet(p, scene_id) ==
    [p EXCEPT !.current_scene_id = scene_id, !.bullet = Max2(0, @ - 1)]

\* self.state.player.current_scene_id = ...
move_player(p, scene_id) == [p EXCEPT !.current_scene_id = scene_id]

\* variant: an unknown id falls back to the first option of the scene
find_option_or_first(scene, choice_id) ==
    LET found == {i \in 1..Len(scene.options) : scene.options[i].id = choice_id}
    IN  IF found = {} /\ scene.options # <<>> THEN {1} ELSE found

\* positions of the options of the scene whose id is choice_id
find_option(scene, choice_id) ==
    {i \in 1..Len(scene.options) : scene.options[i].id = choice_id}

\* [self, ok, raised]
_select_option(self, choice_id, disk) ==
    IF ~HasCurrentScene(self)
    THEN [self |-> self, ok |-> FALSE, raised |-> "KeyError"]
    ELSE
      LET scene == get_current_scene(self)
          found == find_option(scene, choice_id)
      IN  IF found = {}
          THEN [self |-> self, ok |-> FALSE, raised |-> ""]
          ELSE
            LET selected_option == scene.options[Min(found)]
                moved == move_player(self.player, selected_option.next_scene_id)
                window == add_interaction(self.history_window, str(choice_id), selected_option.text)
            IN  [self |-> [self EXCEPT
                             !.player = moved,
                             !.history_window = window,
                             !.snapshot = written_file(
                                 self.snapshot,
                                 save_snapshot(moved, moved.current_scene_id,
                                               window, self.global_turn_count),
                                 disk.select)],
                 ok |-> disk.select = "", raised |-> disk.select]

\* variant: the budget counts as used up one turn early
BudgetExhausted_one_early(self) == self.global_turn_count >= max_turns - 1

BudgetExhausted(self) == self.global_turn_count >= max_turns

BudgetInput == <<"The temporal distortion forces an ending.">>

BudgetTargetText == <<"The story reaches its final conclusion.">>

TakeoverInput(scene) == <<"The player reached the transition node: ">> \o scene.text

\* variant: the id has to be the marker itself
IsTakeoverId_exact(id) == id \in {"ai_takeover", "end_game_ai"}

IsTakeoverId(id) == id \in TakeoverIds

\* variant: re-entry leaves the targets the service chose
absorb_options_keep_targets(self, ai_scene) ==
    IF ai_scene.is_end \/ ai_scene.reached_target_plot THEN ai_scene.options
    ELSE [i \in 1..Len(ai_scene.options) |->
            IF ai_scene.options[i].next_scene_id = "dynamic_await"
            THEN [ai_scene.options[i] EXCEPT !.next_scene_id = "ai_sandbox_node"]
            ELSE ai_scene.options[i]]

\* the options of the generated scene after the three-way branch of step 3
absorb_options(self, ai_scene) ==
    IF ai_scene.is_end THEN ai_scene.options
    ELSE IF ai_scene.reached_target_plot
    THEN [i \in 1..Len(ai_scene.options) |->
            [ai_scene.options[i] EXCEPT !.next_scene_id = self.saved_target_scene_id]]
    ELSE [i \in 1..Len(ai_scene.options) |->
            IF ai_scene.options[i].next_scene_id = "dynamic_await"
            THEN [ai_scene.options[i] EXCEPT !.next_scene_id = "ai_sandbox_node"]
            ELSE ai_scene.options[i]]

\* variant: the report of the anchor is looked at before the ending
absorb_mode_reached_first(self, ai_scene) ==
    IF ai_scene.reached_target_plot THEN FALSE ELSE self.in_dynamic_mode

\* in_dynamic_mode after the three-way branch of step 3
absorb_mode(self, ai_scene) ==
    IF ai_scene.is_end THEN self.in_dynamic_mode
    ELSE IF ai_scene.reached_target_plot THEN FALSE
    ELSE self.in_dynamic_mode

\* the hard safety of step 3: the budget overrides what generation returned
force_conclusion(self, ai_scene) ==
    IF BudgetExhausted(self)
    THEN [ai_scene EXCEPT !.is_end = TRUE, !.options = <<>>]
    ELSE ai_scene

\* variant: beside the authored scenes only the latest generated one is kept
scene_ids_latest_only(all_scenes, stored) ==
    (DOMAIN all_scenes \cap AuthoredIds) \cup {stored.id}

\* the keys of scenes after scenes[ai_scene.id] = ai_scene
scene_ids_after_store(all_scenes, stored) == DOMAIN all_scenes \cup {stored.id}

\* variant: a scene already stored under the id is kept
store_scene_if_absent(all_scenes, stored) ==
    [k \in DOMAIN all_scenes \cup {stored.id} |->
        IF k \in DOMAIN all_scenes THEN all_scenes[k] ELSE stored]

\* step 4: the generated scene becomes a node of the graph under its own id
store_scene(all_scenes, stored) ==
    [k \in scene_ids_after_store(all_scenes, stored) |->
        IF k = stored.id THEN stored ELSE all_scenes[k]]

\* [self, text, raised, last_player_action, mode_at_call]: the last two are the
\* input handed to the generation call and in_dynamic_mode when it is made
_run_mode_b(self, player_input, raw, disk) ==
    LET answer == call_ai_game_master(raw)
    IN  IF answer.raised # ""
        THEN [self |-> self, text |-> NoneText, raised |-> answer.raised,
              last_player_action |-> player_input,
              mode_at_call |-> self.in_dynamic_mode]
        ELSE
          LET ai_scene == force_conclusion(self, answer.scene)
              p1 == IF ai_scene.stat_changes # NoEffect
                    THEN _apply_effect(self.player, ai_scene.stat_changes)
                    ELSE self.player
              stored == Scene(ai_scene.id, ai_scene.text, ai_scene.is_end,
                              absorb_options(self, ai_scene))
              p2 == move_player(p1, ai_scene.id)
              window == add_interaction(self.history_window,
                                        IF player_input # NoInput THEN player_input
                                        ELSE <<"Transition">>,
                                        ai_scene.text)
          IN  [self |-> [self EXCEPT
                           !.in_dynamic_mode = absorb_mode(self, ai_scene),
                           !.scenes = store_scene(self.scenes, stored),
                           !.player = p2,
                           !.history_window = window,
                           !.snapshot = written_file(
                               self.snapshot,
                               save_snapshot(p2, ai_scene.id, window,
                                             self.global_turn_count),
                               disk.absorb)],
               text |-> IF disk.absorb = "" THEN ai_scene.text ELSE NoneText,
               raised |-> disk.absorb,
               last_player_action |-> player_input,
               mode_at_call |-> self.in_dynamic_mode]

\* [self, text, fired, generated, raised, last_player_action, mode_at_call]:
\* what _run_mode_b gave (f @@ g: the fields of f, and those of g that f lacks)
_run_mode_a(self, player_input, raw, draws, disk) ==
    IF ~HasCurrentScene(self)
    THEN [self |-> self, text |-> NoneText, fired |-> <<>>, generated |-> FALSE,
          raised |-> "KeyError", last_player_action |-> NoInput,
          mode_at_call |-> FALSE]
    ELSE
      LET current_scene == get_current_scene(self)
      IN  IF BudgetExhausted(self) /\ ~current_scene.is_end
          THEN [fired |-> <<>>, generated |-> TRUE]
               @@ _run_mode_b([self EXCEPT
                                 !.in_dynamic_mode = TRUE,
                                 !.target_scene_text = BudgetTargetText,
                                 !.saved_target_scene_id = current_scene.id],
                              BudgetInput, raw, disk)
          ELSE
            LET ev == _handle_events(self, draws)
            IN  IF IsTakeoverId(current_scene.id)
                THEN [fired |-> ev.descriptions, generated |-> TRUE]
                     @@ _run_mode_b([ev.self EXCEPT !.in_dynamic_mode = TRUE],
                                    TakeoverInput(current_scene), raw, disk)
                ELSE [self |-> ev.self, text |-> current_scene.text,
                      fired |-> ev.descriptions, generated |-> FALSE, raised |-> "",
                      last_player_action |-> NoInput, mode_at_call |-> FALSE]

\* variant: the option followed and the delegation are counted separately
increment_turn_twice(count) == count + 2

increment_turn(count) == count + 1

\* variant: the custom action is delegated before the mode is switched
record_anchor_keep_mode(self) ==
    [self EXCEPT !.saved_target_scene_id = get_current_scene(self).id,
                 !.target_scene_text = get_current_scene(self).text]

\* a custom action in guided mode: the current scene becomes the anchor
record_anchor(self) ==
    [self EXCEPT !.saved_target_scene_id = get_current_scene(self).id,
                 !.target_scene_text = get_current_scene(self).text,
                 !.in_dynamic_mode = TRUE]

\* [self, text, fired, generated, selected, dangling, raised,
\* last_player_action, mode_at_call]; dangling: the option that was followed
\* leads to an id that is not a key of scenes
run_turn(self, player_input, raw, draws, disk) ==
    LET s0 == [self EXCEPT !.global_turn_count = increment_turn(self.global_turn_count)]
        finish_b(s, sel) ==
            [fired |-> <<>>, generated |-> TRUE, selected |-> sel,
             dangling |-> sel /\ ~HasCurrentScene(s)]
            @@ _run_mode_b(s, player_input, raw, disk)
        dispatch(s, sel) ==
            IF s.in_dynamic_mode THEN finish_b(s, sel)
            ELSE [selected |-> sel, dangling |-> sel /\ ~HasCurrentScene(s)]
                 @@ _run_mode_a(s, player_input, raw, draws, disk)
        failed(s, exc) ==
            [self |-> s, text |-> NoneText, fired |-> <<>>, generated |-> FALSE,
             selected |-> FALSE, dangling |-> FALSE, raised |-> exc,
             last_player_action |-> NoInput, mode_at_call |-> FALSE]
    IN  IF player_input = NoInput THEN dispatch(s0, FALSE)
        ELSE IF IsNumeric(player_input)
        THEN LET sel == _select_option(s0, int(player_input), disk)
             IN  IF sel.raised # "" THEN failed(sel.self, sel.raised)
                 ELSE dispatch(sel.self, sel.ok)
        ELSE IF s0.in_dynamic_mode THEN finish_b(s0, FALSE)
        ELSE IF ~HasCurrentScene(s0) THEN failed(s0, "KeyError")
        ELSE finish_b(record_anchor(s0), FALSE)

\* world.load_world_from_theme(loader)
load_world == [scenes |-> WorldScenes, player |-> WorldPlayer]

\* variant: the file is left as it is
reset_memory_keep_file(snap) == snap

\* MemoryManager.reset_game: the file is rewritten only if it exists
reset_memory(snap) == IF snap = NoFile THEN NoFile ELSE EmptySnapshot

----------------------------------------------------------------------------
(* The session as a state machine *)

PlayerInputs == { NoInput, <<"1">>, <<"2">>, <<"9">>, <<"look around">> }

\* last: what the most recent call was given, did and returned or raised
Idle(op) ==
    [op |-> op, input |-> NoInput, raw |-> NoPayload, generated |-> FALSE,
     selected |-> FALSE, dangling |-> FALSE, raised |-> "", fired |-> <<>>,
     text |-> NoneText, last_player_action |-> NoInput, mode_at_call |-> FALSE]

Init ==
    /\ scenes = load_world.scenes
    /\ player = load_world.player
    /\ history_window = <<>>
    /\ snapshot = NoFile
    /\ global_turn_count = 0
    /\ in_dynamic_mode = FALSE
    /\ saved_target_scene_id = NoneId
    /\ target_scene_text = NoneText
    /\ last = Idle("init")

Install(r, op, player_input, raw) ==
    /\ scenes' = r.self.scenes
    /\ player' = r.self.player
    /\ history_window' = r.self.history_window
    /\ snapshot' = r.self.snapshot
    /\ global_turn_count' = r.self.global_turn_count
    /\ in_dynamic_mode' = r.self.in_dynamic_mode
    /\ saved_target_scene_id' = r.self.saved_target_scene_id
    /\ target_scene_text' = r.self.target_scene_text
    /\ last' = [op |-> op, input |-> player_input,
                raw |-> IF r.generated THEN raw ELSE NoPayload,
                generated |-> r.generated, selected |-> r.selected,
                dangling |-> r.dangling, raised |-> r.raised, fired |-> r.fired,
                text |-> r.text, last_player_action |-> r.last_player_action,
                mode_at_call |-> r.mode_at_call]

RunTurn ==
    /\ global_turn_count < max_turns + ExtraCalls
    /\ \E player_input \in PlayerInputs, raw \in Payloads, draws \in DrawSeqs :
          Install(run_turn(Self, player_input, raw, draws, DiskOk),
                  "run_turn", player_input, raw)

ResetGame ==
    /\ last.op # "reset_game"
    /\ scenes' = load_world.scenes
    /\ player' = load_world.player
    /\ history_window' = <<>>
    /\ snapshot' = reset_memory(snapshot)
    /\ global_turn_count' = 0
    /\ in_dynamic_mode' = FALSE
    /\ saved_target_scene_id' = NoneId
    /\ target_scene_text' = NoneText
    /\ last' = Idle("reset_game")

Next == RunTurn \/ ResetGame

Spec == Init /\ [][Next]_vars

\* the same session on a disk where a snapshot write can fail
RunTurnOnFailingDisk ==
    /\ global_turn_count < max_turns + ExtraCalls
    /\ \E player_input \in PlayerInputs, raw \in Payloads, draws \in DrawSeqs,
          disk \in DiskOutcomes :
          Install(run_turn(Self, player_input, raw, draws, disk),
                  "run_turn", player_input, raw)

NextDisk == RunTurnOnFailingDisk \/ ResetGame

SpecDisk == Init /\ [][NextDisk]_vars

----------------------------------------------------------------------------
(* ThemeLoader.load_world (loader.py) on world files of any shape, and     *)
(* _apply_effect on the player the loader hands over.                      *)

\* most effects applied to one loaded player
MaxEffects == 2

\* dict.get(key, default)
Get(d, key, default) == IF key \in DOMAIN d THEN d[key] ELSE default

ThemeOption(id, next_scene_id) == Option(id, <<"go">>, next_scene_id)

\* option lists of a scene entry; NoneId: the option has no next_scene_id key
ThemeOptionLists ==
    { <<>>,
      << ThemeOption(1, "a") >>,
      << ThemeOption(1, "b") >>,
      << ThemeOption(1, "zz") >>,
      << ThemeOption(1, "a"), ThemeOption(2, NoneId) >>,
      << ThemeOption(1, "a"), ThemeOption(1, "b") >> }

SceneEntry(id, options) ==
    [id |-> id, data |-> [text |-> <<"A room.">>, is_end |-> (options = <<>>),
                          options |-> options]]

\* the "scenes" object of world.json, in file order
ThemeSceneLists ==
    {<<>>}
    \cup { <<SceneEntry("a", o)>> : o \in ThemeOptionLists }
    \cup { <<SceneEntry("a", o1), SceneEntry("b", o2)>> :
              o1 \in ThemeOptionLists, o2 \in ThemeOptionLists }
    \cup { <<SceneEntry("b", o2), SceneEntry("a", o1)>> :
              o1 \in ThemeOptionLists, o2 \in ThemeOptionLists }

\* initial_scene_id: key absent, empty string, a scene id, an unknown id
ThemeInitialIds == {NoneId, "", "a", "b", "zz"}

\* the "player" object of world.json: the stats it names
ThemePlayerData ==
    { NoEffect, [s \in {"hp"} |-> 150], [s \in {"hp"} |-> -5],
      [s \in {"mana", "credits"} |-> IF s = "mana" THEN -20 ELSE 7] }

WorldFiles ==
    [scenes : ThemeSceneLists, initial_scene_id : ThemeInitialIds,
     player : ThemePlayerData]

\* step 1: the scenes dictionary
parse_scenes(data) ==
    [sid \in {data.scenes[i].id : i \in 1..Len(data.scenes)} |->
        LET i == CHOOSE k \in 1..Len(data.scenes) : data.scenes[k].id = sid
        IN  Scene(sid, data.scenes[i].data.text, data.scenes[i].data.is_end,
                  data.scenes[i].data.options)]

\* variant: only the first option of every scene is validated
dangling_edges_first_option(data) ==
    LET known == {data.scenes[i].id : i \in 1..Len(data.scenes)}
        RECURSIVE walk(_)
        walk(i) ==
            IF i > Len(data.scenes) THEN <<>>
            ELSE LET opts == data.scenes[i].data.options
                 IN  (IF opts # <<>> /\ opts[1].next_scene_id \notin known
                      THEN << [scene_id |-> data.scenes[i].id, option_id |-> opts[1].id,
                               target |-> opts[1].next_scene_id] >>
                      ELSE <<>>) \o walk(i + 1)
    IN  walk(1)

\* step 2: the options whose target is not a scene, in the order the loops
\* of the validation meet them
dangling_edges(data) ==
    LET known == {data.scenes[i].id : i \in 1..Len(data.scenes)}
        RECURSIVE walk(_)
        walk(i) ==
            IF i > Len(data.scenes) THEN <<>>
            ELSE LET opts == data.scenes[i].data.options
                     bad == SelectSeq(opts, LAMBDA o : o.next_scene_id \notin known)
                 IN  [j \in 1..Len(bad) |->
                        [scene_id |-> data.scenes[i].id, option_id |-> bad[j].id,
                         target |-> bad[j].next_scene_id]] \o walk(i + 1)
    IN  walk(1)

\* "not initial_id": None and the empty string are falsy
IsFalsy(id) == id \in {NoneId, ""}

\* variant: the id only has to be given
initial_scene_given(initial_id, loaded) == ~IsFalsy(initial_id)

\* step 3: the initial scene check
initial_scene_ok(initial_id, loaded) ==
    ~IsFalsy(initial_id) /\ initial_id \in DOMAIN loaded

\* nothing is returned
NoWorldState == [scenes |-> <<>>, player |-> <<>>]

NoMessage == [kind |-> "none"]

\* step 4: the player, every stat taken from the file or defaulted
make_player(initial_id, player_data) ==
    [current_scene_id |-> initial_id, inventory |-> <<>>,
     hp |-> Get(player_data, "hp", 100), mana |-> Get(player_data, "mana", 50),
     bullet |-> Get(player_data, "bullet", 5),
     credits |-> Get(player_data, "credits", 50)]

\* [raised, message, state]: ValueError with what the message names, or the
\* WorldState
ThemeLoader_load_world(data) ==
    LET loaded == parse_scenes(data)
        bad == dangling_edges(data)
    IN  IF bad # <<>>
        THEN [raised |-> "ValueError",
              message |-> [kind |-> "dangling", scene_id |-> bad[1].scene_id,
                           option_id |-> bad[1].option_id, target |-> bad[1].target],
              state |-> NoWorldState]
        ELSE IF ~initial_scene_ok(data.initial_scene_id, loaded)
        THEN [raised |-> "ValueError",
              message |-> [kind |-> "initial", initial_id |-> data.initial_scene_id],
              state |-> NoWorldState]
        ELSE [raised |-> "", message |-> NoMessage,
              state |-> [scenes |-> loaded,
                         player |-> make_player(data.initial_scene_id, data.player)]]

\* effect maps handed to _apply_effect
ThemeEffects ==
    { Effect("hp", 0), Effect("hp", -500), Effect("hp", 500), Effect("mana", -500),
      Effect("credits", 500),
      [s \in {"hp", "bullet"} |-> IF s = "hp" THEN 0 ELSE -1] }

\* last: the world file, what load_world raised, the effects applied since,
\* whether the latest was applied with a hook registered and what it heard
InitTheme ==
    /\ scenes = NoWorldState.scenes
    /\ player = NoWorldState.player
    /\ history_window = <<>>
    /\ snapshot = NoFile
    /\ global_turn_count = 0
    /\ in_dynamic_mode = FALSE
    /\ saved_target_scene_id = NoneId
    /\ target_scene_text = NoneText
    /\ \E data \in WorldFiles :
          last = [op |-> "world_file", data |-> data, raised |-> "",
                  message |-> NoMessage, effect |-> NoEffect, applied |-> 0,
                  hooked |-> FALSE, notified |-> <<>>]

LoadWorld ==
    /\ last.op = "world_file"
    /\ LET r == ThemeLoader_load_world(last.data)
       IN  /\ scenes' = r.state.scenes
           /\ player' = r.state.player
           /\ last' = [last EXCEPT !.op = "load_world", !.raised = r.raised,
                                   !.message = r.message]
    /\ UNCHANGED <<history_window, snapshot, global_turn_count, in_dynamic_mode,
                   saved_target_scene_id, target_scene_text>>

ApplyEffect ==
    /\ last.op \in {"load_world", "_apply_effect"}
    /\ last.raised = ""
    /\ last.applied < MaxEffects
    /\ \E effect \in ThemeEffects, hooked \in BOOLEAN :
          LET r == _apply_effect_with_hook(player, effect, hooked)
          IN  /\ player' = r.player
              /\ last' = [last EXCEPT !.op = "_apply_effect", !.effect = effect,
                                      !.applied = @ + 1, !.hooked = hooked,
                                      !.notified = r.notified]
    /\ UNCHANGED <<scenes, history_window, snapshot, global_turn_count,
                   in_dynamic_mode, saved_target_scene_id, target_scene_text>>

NextTheme == LoadWorld \/ ApplyEffect

SpecTheme == InitTheme /\ [][NextTheme]_vars

----------------------------------------------------------------------------
(* MemoryManager.add_interaction on its own: any sequence of additions.    *)

\* most additions in one run
MaxAdds == 7

MemoryInputs == { <<"1">>, <<"look around">> }

MemoryResponses == { <<"A long hall.">>, <<" ", "The pipes murmur.", " ">> }

\* last.added: every interaction handed to add_interaction since the window
\* was last emptied, as the window should hold it
InitMemory ==
    /\ scenes = load_world.scenes
    /\ player = load_world.player
    /\ history_window = <<>>
    /\ snapshot = NoFile
    /\ global_turn_count = 0
    /\ in_dynamic_mode = FALSE
    /\ saved_target_scene_id = NoneId
    /\ target_scene_text = NoneText
    /\ last = [op |-> "memory", added |-> <<>>]

AddInteraction ==
    /\ Len(last.added) < MaxAdds
    /\ \E user_input \in MemoryInputs, game_response \in MemoryResponses :
          /\ history_window' = add_interaction(history_window, user_input, game_response)
          /\ last' = [op |-> "add_interaction",
                      added |-> Append(last.added,
                                       [action |-> user_input,
                                        result |-> strip(game_response)])]
    /\ UNCHANGED <<scenes, player, snapshot, global_turn_count, in_dynamic_mode,
                   saved_target_scene_id, target_scene_text>>

\* MemoryManager.reset_game
ResetMemory ==
    /\ last.op = "add_interaction"
    /\ history_window' = <<>>
    /\ snapshot' = reset_memory(snapshot)
    /\ last' = [op |-> "reset_game", added |-> <<>>]
    /\ UNCHANGED <<scenes, player, global_turn_count, in_dynamic_mode,
                   saved_target_scene_id, target_scene_text>>

NextMemory == AddInteraction \/ ResetMemory

SpecMemory == InitMemory /\ [][NextMemory]_vars

----------------------------------------------------------------------------
(* EventManager.check_triggers and _handle_events on their own: any scene  *)
(* id and any value of the random source.                                  *)

\* most _handle_events calls in one run
MaxChecks == 2

\* values of random.random() in percent: the ends of [0, 1) and the two
\* sides of the probability of the chance trigger
WideDraws == {0, 50, 51, 99}

TriggerSceneIds == AuthoredIds \cup {"g1", FallbackSceneId}

\* last: the scene and the draws of the latest call, what it returned
InitTriggers ==
    /\ scenes = load_world.scenes
    /\ player = load_world.player
    /\ history_window = <<>>
    /\ snapshot = NoFile
    /\ global_turn_count = 0
    /\ in_dynamic_mode = FALSE
    /\ saved_target_scene_id = NoneId
    /\ target_scene_text = NoneText
    /\ last = [op |-> "events", scene_id |-> NoneId,
               draws |-> [i \in 1..Len(Triggers) |-> 0], fired |-> <<>>,
               checks |-> 0]

HandleEvents ==
    /\ last.checks < MaxChecks
    /\ \E scene_id \in TriggerSceneIds, draws \in [1..Len(Triggers) -> WideDraws] :
          LET ev == _handle_events([Self EXCEPT !.player.current_scene_id = scene_id],
                                   draws)
          IN  /\ player' = ev.self.player
              /\ last' = [op |-> "_handle_events", scene_id |-> scene_id,
                          draws |-> draws, fired |-> ev.descriptions,
                          checks |-> last.checks + 1]
    /\ UNCHANGED <<scenes, history_window, snapshot, global_turn_count,
                   in_dynamic_mode, saved_target_scene_id, target_scene_text>>

NextTriggers == HandleEvents

SpecTriggers == InitTriggers /\ [][NextTriggers]_vars

----------------------------------------------------------------------------
(* MemoryManager.save_snapshot step by step, with the process dying at any *)
(* point: open("w") truncates the file, json.dump writes the document      *)
(* through the file buffer, leaving the with block flushes and closes.     *)

\* the keys of the document in the order json.dump writes them
SnapshotKeys == <<"player_state", "current_location", "recent_history", "turn_count">>

CrashPlayers == { WorldPlayer, [WorldPlayer EXCEPT !.hp = 40] }

CrashHistories ==
    { <<>>, <<[action |-> <<"1">>, result |-> <<"go north">>]>> }

\* documents save_snapshot can be asked to write
SnapshotDocs ==
    { save_snapshot(p, loc, h, t) :
        p \in CrashPlayers, loc \in {"start", "hall"}, h \in CrashHistories,
        t \in 1..2 }

\* the file cut off after the first `written` keys of the document
Partial(doc, written) ==
    IF written = 0 THEN [kind |-> "truncated"]
    ELSE IF written = Len(SnapshotKeys) THEN doc
    ELSE [kind |-> "partial", keys |-> SubSeq(SnapshotKeys, 1, written)]

\* last: the file before the call, the document to write, how far it got
InitCrash ==
    /\ scenes = load_world.scenes
    /\ player = load_world.player
    /\ history_window = <<>>
    /\ global_turn_count = 0
    /\ in_dynamic_mode = FALSE
    /\ saved_target_scene_id = NoneId
    /\ target_scene_text = NoneText
    /\ \E previous \in SnapshotDocs \cup {NoFile, EmptySnapshot}, doc \in SnapshotDocs :
          /\ previous # doc
          /\ snapshot = previous
          /\ last = [op |-> "save_snapshot", previous |-> previous, doc |-> doc,
                     written |-> 0]

\* self.save_path.open("w")
OpenForWriting ==
    /\ last.op = "save_snapshot"
    /\ snapshot' = Partial(last.doc, 0)
    /\ last' = [last EXCEPT !.op = "open"]
    /\ UNCHANGED <<scenes, player, history_window, global_turn_count,
                   in_dynamic_mode, saved_target_scene_id, target_scene_text>>

\* json.dump fills the buffer and the buffer reaches the file
FlushBuffer ==
    /\ last.op = "open"
    /\ last.written < Len(SnapshotKeys)
    /\ snapshot' = Partial(last.doc, last.written + 1)
    /\ last' = [last EXCEPT !.written = @ + 1]
    /\ UNCHANGED <<scenes, player, history_window, global_turn_count,
                   in_dynamic_mode, saved_target_scene_id, target_scene_text>>

\* the with block is left: what is still buffered is written, the file closed
CloseFile ==
    /\ last.op = "open"
    /\ snapshot' = last.doc
    /\ last' = [last EXCEPT !.op = "closed", !.written = Len(SnapshotKeys)]
    /\ UNCHANGED <<scenes, player, history_window, global_turn_count,
                   in_dynamic_mode, saved_target_scene_id, target_scene_text>>

\* the process dies inside save_snapshot; the file stays as it is
Crash ==
    /\ last.op \in {"save_snapshot", "open"}
    /\ last' = [last EXCEPT !.op = "crashed"]
    /\ UNCHANGED <<scenes, player, history_window, snapshot, global_turn_count,
                   in_dynamic_mode, saved_target_scene_id, target_scene_text>>

NextCrash == OpenForWriting \/ FlushBuffer \/ CloseFile \/ Crash

SpecCrash == InitCrash /\ [][NextCrash]_vars

----------------------------------------------------------------------------
(* run_game_loop (interface.py): the session as the shipped loop drives it. *)
(* last.pc is the position of the loop: "boot" before the first reset,     *)
(* "reset" after reset_game, "options" while a choice is awaited,          *)
(* "end_options" while RETRY or QUIT is awaited, "retry", "quit", and      *)
(* "crashed" when an exception left the loop.                              *)

\* a continuation that costs the player more hp than they have
DeadlyPayload == Payload("ok", "g1", GenText, GenOptions, FALSE, FALSE, Effect("hp", -60))

LoopPayloads == Payloads \cup {DeadlyPayload}

\* what the choice loop hands to run_turn: the link of an option, or the
\* text of the entry line, which can be empty
LoopChoices == PlayerInputs

NoReason == "<None>"

check_game_over(self) ==
    IF self.player.hp <= 0
    THEN "SYSTEM FAILURE: Vital signs terminated. Game Over."
    ELSE NoReason

\* variant: only the scene decides
session_over_scene_only(self) == get_current_scene(self).is_end

\* if game_over_msg or current_scene.is_end
session_over(self) ==
    check_game_over(self) # NoReason \/ get_current_scene(self).is_end

\* where the loop stands once run_turn has come back with r
after_turn(r) ==
    IF r.raised # "" \/ ~HasCurrentScene(r.self) THEN "crashed"
    ELSE IF session_over(r.self) THEN "end_options"
    ELSE "options"

LoopIdle(op, pc) == [pc |-> pc] @@ Idle(op)

InitLoop ==
    /\ scenes = load_world.scenes
    /\ player = load_world.player
    /\ history_window = <<>>
    /\ snapshot = NoFile
    /\ global_turn_count = 0
    /\ in_dynamic_mode = FALSE
    /\ saved_target_scene_id = NoneId
    /\ target_scene_text = NoneText
    /\ last = LoopIdle("init", "boot")

LoopInstall(r, player_input, raw) ==
    /\ scenes' = r.self.scenes
    /\ player' = r.self.player
    /\ history_window' = r.self.history_window
    /\ snapshot' = r.self.snapshot
    /\ global_turn_count' = r.self.global_turn_count
    /\ in_dynamic_mode' = r.self.in_dynamic_mode
    /\ saved_target_scene_id' = r.self.saved_target_scene_id
    /\ target_scene_text' = r.self.target_scene_text
    /\ last' = [op |-> "run_turn", pc |-> after_turn(r), input |-> player_input,
                raw |-> IF r.generated THEN raw ELSE NoPayload,
                generated |-> r.generated, selected |-> r.selected,
                dangling |-> r.dangling, raised |-> r.raised, fired |-> r.fired,
                text |-> r.text, last_player_action |-> r.last_player_action,
                mode_at_call |-> r.mode_at_call]

\* ui.clear_ui(); gm.reset_game()
LoopReset ==
    /\ last.pc \in {"boot", "retry"}
    /\ scenes' = load_world.scenes
    /\ player' = load_world.player
    /\ history_window' = <<>>
    /\ snapshot' = reset_memory(snapshot)
    /\ global_turn_count' = 0
    /\ in_dynamic_mode' = FALSE
    /\ saved_target_scene_id' = NoneId
    /\ target_scene_text' = NoneText
    /\ last' = LoopIdle("reset_game", "reset")

\* output, _ = gm.run_turn()
LoopFirstTurn ==
    /\ last.pc = "reset"
    /\ \E raw \in LoopPayloads, draws \in DrawSeqs :
          LoopInstall(run_turn(Self, NoInput, raw, draws, DiskOk), NoInput, raw)

\* a choice arrives: output, _ = gm.run_turn(choice)
LoopTurn ==
    /\ last.pc = "options"
    /\ global_turn_count < max_turns + ExtraCalls
    /\ \E choice \in LoopChoices, raw \in LoopPayloads, draws \in DrawSeqs :
          LoopInstall(run_turn(Self, choice, raw, draws, DiskOk), choice, raw)

\* final_choice == "RETRY": the inner loop is left
LoopRetry ==
    /\ last.pc = "end_options"
    /\ last' = [last EXCEPT !.op = "retry", !.pc = "retry"]
    /\ UNCHANGED <<scenes, player, history_window, snapshot, global_turn_count,
                   in_dynamic_mode, saved_target_scene_id, target_scene_text>>

\* "QUIT" while a choice or the final choice is awaited: pygame.quit(); return
LoopQuit ==
    /\ last.pc \in {"options", "end_options"}
    /\ last' = [last EXCEPT !.op = "quit", !.pc = "quit"]
    /\ UNCHANGED <<scenes, player, history_window, snapshot, global_turn_count,
                   in_dynamic_mode, saved_target_scene_id, target_scene_text>>

NextLoop == LoopReset \/ LoopFirstTurn \/ LoopTurn \/ LoopRetry \/ LoopQuit

SpecLoop == InitLoop /\ [][NextLoop]_vars

----------------------------------------------------------------------------
(* Properties *)

CurrentSceneExists == player.current_scene_id \in DOMAIN scenes

CurrentScene == scenes[player.current_scene_id]

OptionIds(scene) == {scene.options[i].id : i \in 1..Len(scene.options)}

RanTurn == last.op = "run_turn"

\* the turn produced a scene from a generation call that came back
Absorbed == RanTurn /\ last.generated /\ last.raised = ""

\* the turn stopped, without generation, on a terminal scene of the world file
EndedOnAuthoredTerminal ==
    /\ ~last.generated
    /\ last.raised = ""
    /\ CurrentSceneExists
    /\ player.current_scene_id \in AuthoredIds
    /\ CurrentScene.is_end

\* C1: a run_turn call made with the budget used up (global_turn_count >=
\* max_turns after its increment), whatever the input and whatever result the
\* generation call gives, ends on a scene with is_end = true and no options,
\* unless it resolved to a terminal scene of the world file.
C1_TurnBudgetForcesEnding ==
    (RanTurn /\ global_turn_count >= max_turns /\ last.raw.kind # "raise"
        /\ ~EndedOnAuthoredTerminal)
    => (CurrentSceneExists /\ CurrentScene.is_end /\ CurrentScene.options = <<>>)

\* C2: from a fresh or reset session, whatever the inputs and the generation
\* results, the current scene is terminal at the end of the max_turns-th
\* run_turn call.
C2_TerminalWithinBudget ==
    (RanTurn /\ global_turn_count = max_turns /\ last.raw.kind # "raise")
    => (CurrentSceneExists /\ CurrentScene.is_end)

\* C3: a structurally invalid generation result is a whole failure: the
\* player stands on the fallback scene, not on the id the result carried,
\* and the stored scene has nothing of the invalid result, its text included.
C3_InvalidResultLeavesNoTrace ==
    (Absorbed /\ last.raw.kind \in {"unparsable", "bad_options"})
    => /\ player.current_scene_id = FallbackSceneId
       /\ player.current_scene_id # last.raw.id
       /\ CurrentScene.text # last.raw.story_text

\* C4: a generation call that times out or raises never escapes run_turn:
\* the turn completes and the fallback scene is the current scene.
C4_GenerationFailureAbsorbed ==
    (RanTurn /\ last.raw.kind = "raise")
    => (last.raised = "" /\ player.current_scene_id = FallbackSceneId)

AllOptionsLeadTo(scene, target) ==
    \A i \in 1..Len(scene.options) : scene.options[i].next_scene_id = target

Reanchored ==
    /\ AllOptionsLeadTo(CurrentScene, saved_target_scene_id)
    /\ ~in_dynamic_mode

\* C5 as stated: after every generated turn whose result reports the anchor
\* reached, every option of the stored scene leads to the recorded anchor and
\* the next turn starts in Scripted mode.
C5_ReanchorsWheneverReached ==
    (Absorbed /\ last.raw.reached) => Reanchored

\* C5: after every generated turn whose result reports the anchor reached and
\* whose scene is not terminal (neither returned as an ending nor forced to
\* one by the turn budget), every option of the stored scene leads to the
\* recorded anchor and the next turn starts in Scripted mode.
C5_ReanchorsOpenScene ==
    (Absorbed /\ last.raw.reached /\ ~CurrentScene.is_end) => Reanchored

C5_Witness ==
    /\ Absorbed /\ last.raw.reached /\ ~CurrentScene.is_end
    /\ CurrentScene.options # <<>>
    /\ saved_target_scene_id = "start"
    /\ Reanchored

\* C6: whenever an option is followed its next_scene_id is a key of scenes
\* at that moment, so no turn ever fails on a missing current scene.
C6_FollowedEdgesResolve ==
    RanTurn => (~last.dangling /\ last.raised # "KeyError")

TurnCounted == global_turn_count' = global_turn_count + 1

\* C7: global_turn_count never decreases between resets, and a run_turn call
\* that follows an option or delegates to generation (or both) raises it by
\* exactly 1.
C7_TurnCounter ==
    [][/\ (last'.op = "run_turn" /\ (last'.selected \/ last'.generated)) => TurnCounted
       /\ last'.op # "reset_game" => global_turn_count' >= global_turn_count]_vars

C7_Witness ==
    /\ RanTurn /\ last.selected /\ last.generated /\ last.raised = ""
    /\ global_turn_count = 2

\* the call being made is run_turn in Scripted mode with a number that is no
\* option id of the current scene
InvalidChoiceInScriptedMode ==
    /\ last'.op = "run_turn"
    /\ ~in_dynamic_mode
    /\ CurrentSceneExists
    /\ IsNumeric(last'.input)
    /\ int(last'.input) \notin OptionIds(CurrentScene)

\* C8: run_turn with an invalid numeric input in Scripted mode leaves the
\* turn counter, the player (scene and stats), the mode, the history window
\* and the snapshot as they were.
C8_InvalidInputChangesNothing ==
    [][InvalidChoiceInScriptedMode
       => UNCHANGED <<global_turn_count, player, in_dynamic_mode,
                      history_window, snapshot>>]_vars

\* the _select_option call that run_turn makes for a numeric input: it acts
\* on the object as it is once the turn counter has been incremented
SelectCall ==
    _select_option([Self EXCEPT !.global_turn_count = global_turn_count'],
                   int(last'.input), DiskOk)

SelectIsCalled ==
    /\ last'.op = "run_turn"
    /\ IsNumeric(last'.input)
    /\ CurrentSceneExists

\* C9: _select_option with an id that no option of the current scene has
\* returns failure and leaves player.current_scene_id, the history window
\* and the snapshot untouched; when the turn then stays in the scripted
\* scene, the three are the same after the turn as before it.
C9_InvalidSelectIsNoOp ==
    [][(SelectIsCalled /\ int(last'.input) \notin OptionIds(CurrentScene))
       => /\ ~SelectCall.ok
          /\ SelectCall.raised = ""
          /\ ~last'.selected
          /\ SelectCall.self.player.current_scene_id = player.current_scene_id
          /\ SelectCall.self.history_window = history_window
          /\ SelectCall.self.snapshot = snapshot
          /\ ~last'.generated =>
                /\ player'.current_scene_id = player.current_scene_id
                /\ history_window' = history_window
                /\ snapshot' = snapshot]_vars

C9_Witness ==
    /\ RanTurn /\ last.input = <<"9">> /\ ~last.selected /\ ~last.generated
    /\ last.raised = ""
    /\ player.current_scene_id = "hall"
    /\ history_window # <<>>
    /\ snapshot.kind = "snapshot"

ChosenOption ==
    LET options == CurrentScene.options
    IN  options[Min({i \in 1..Len(options) : options[i].id = int(last'.input)})]

\* the window after exactly one entry was appended to it
AppendedOne(before, after, entry) ==
    /\ after # <<>>
    /\ after[Len(after)] = entry
    /\ \/ Len(before) < HISTORY_CAPACITY /\ after = Append(before, entry)
       \/ Len(before) = HISTORY_CAPACITY /\ after = Append(Tail(before), entry)

SelectSucceedsWith(output) ==
    /\ SelectCall.ok
    /\ SelectCall.raised = ""
    /\ last'.selected
    /\ SelectCall.self.player.current_scene_id = ChosenOption.next_scene_id
    /\ AppendedOne(history_window, SelectCall.self.history_window,
                   [action |-> str(int(last'.input)), result |-> output])

ValidSelectIsCalled ==
    SelectIsCalled /\ int(last'.input) \in OptionIds(CurrentScene)

\* C10 as stated: _select_option with the id of an option of the current
\* scene returns success, moves the player to the option's next_scene_id and
\* appends one history entry: the decimal string of the id and the option's
\* text.
C10_SelectRecordsOptionText ==
    [][ValidSelectIsCalled => SelectSucceedsWith(ChosenOption.text)]_vars

\* C10: _select_option with the id of an option of the current scene returns
\* success, moves the player to the option's next_scene_id and appends one
\* history entry: the decimal string of the id and the option's text without
\* its leading and trailing whitespace.
C10_SelectRecordsStrippedText ==
    [][ValidSelectIsCalled => SelectSucceedsWith(strip(ChosenOption.text))]_vars

C10_Witness ==
    /\ RanTurn /\ last.input = <<"1">> /\ last.selected /\ ~last.generated
    /\ global_turn_count = 1
    /\ player.current_scene_id = "hall"
    /\ history_window = <<[action |-> <<"1">>, result |-> <<"go north">>]>>

----------------------------------------------------------------------------
(* Claims on the loader, the stat bounds and the history window *)

Loaded == last.op \in {"load_world", "_apply_effect"}

\* C11: after every call of _apply_effect, whatever the player state and the
\* effect map (a delta of 0 included), hp is within 0..HP_MAX and mana, bullet
\* and credits are not negative.
C11_StatsWithinBounds ==
    last.op = "_apply_effect" =>
        /\ player.hp >= 0 /\ player.hp <= HP_MAX
        /\ player.mana >= 0 /\ player.bullet >= 0 /\ player.credits >= 0

\* the newest n entries of a sequence
LastN(s, n) == SubSeq(s, Max2(1, Len(s) - n + 1), Len(s))

\* C12: after any sequence of add_interaction calls the window holds at most
\* HISTORY_CAPACITY entries, and they are the newest ones in insertion order:
\* after one addition more than the capacity the oldest entry is gone.
C12_WindowIsNewestK ==
    last.op \in {"memory", "add_interaction", "reset_game"} =>
        /\ Len(history_window) <= HISTORY_CAPACITY
        /\ history_window = LastN(last.added, HISTORY_CAPACITY)

C12_Witness ==
    /\ last.op = "add_interaction"
    /\ Len(last.added) = HISTORY_CAPACITY + 1
    /\ last.added[1] # last.added[2]
    /\ history_window = Tail(last.added)

FileSceneIds(data) == {data.scenes[i].id : i \in 1..Len(data.scenes)}

\* scene and option ids of the options of the file that lead nowhere
FileDangling(data) ==
    UNION { { <<data.scenes[i].id, data.scenes[i].data.options[j].id>> :
                j \in {k \in 1..Len(data.scenes[i].data.options) :
                         data.scenes[i].data.options[k].next_scene_id
                             \notin FileSceneIds(data)} } :
            i \in 1..Len(data.scenes) }

NothingReturned == scenes = <<>> /\ player = <<>>

\* C13: a world file with an option whose next_scene_id is not a scene id
\* fails to load with an error that names an offending scene and option, and
\* no WorldState is returned; in every world that did load, every option's
\* next_scene_id is a key of scenes.
C13_DanglingEdgeFailsLoad ==
    Loaded =>
        /\ FileDangling(last.data) # {} =>
              /\ last.raised = "ValueError"
              /\ last.message.kind = "dangling"
              /\ <<last.message.scene_id, last.message.option_id>>
                    \in FileDangling(last.data)
              /\ NothingReturned
        /\ last.raised = "" =>
              \A sid \in DOMAIN scenes : \A j \in 1..Len(scenes[sid].options) :
                  scenes[sid].options[j].next_scene_id \in DOMAIN scenes

C13_Witness ==
    /\ last.op = "load_world"
    /\ last.raised = "ValueError"
    /\ last.message.kind = "dangling"
    /\ last.message.scene_id = "b"
    /\ last.message.option_id = 2
    /\ last.message.target = NoneId
    /\ NothingReturned

\* C14: a world file whose initial_scene_id is missing, empty or not the id
\* of a loaded scene fails to load; in every world that did load, the
\* player's current_scene_id is the designated initial scene id and is a key
\* of scenes.
C14_InitialSceneChecked ==
    Loaded =>
        /\ (IsFalsy(last.data.initial_scene_id)
              \/ last.data.initial_scene_id \notin FileSceneIds(last.data)) =>
              last.raised = "ValueError" /\ NothingReturned
        /\ last.raised = "" =>
              /\ player.current_scene_id = last.data.initial_scene_id
              /\ player.current_scene_id \in DOMAIN scenes

C14_Witness ==
    /\ last.op = "load_world"
    /\ last.raised = "ValueError"
    /\ last.message.kind = "initial"
    /\ last.message.initial_id = "b"
    /\ FileSceneIds(last.data) = {"a"}
    /\ NothingReturned

----------------------------------------------------------------------------
(* Claims on the dispatch of a turn *)

\* the id of the scene a turn without custom text resolves to: the target of
\* the option chosen, or the current scene when no option is followed
ResolvedId ==
    IF IsNumeric(last'.input) /\ int(last'.input) \in OptionIds(CurrentScene)
    THEN ChosenOption.next_scene_id
    ELSE player.current_scene_id

ResolvedExists == ResolvedId \in DOMAIN scenes

\* the counter reaches max_turns in this turn and the scene is not terminal
BudgetRuleFiresOn(id) ==
    /\ global_turn_count + 1 >= max_turns
    /\ id \in DOMAIN scenes
    /\ ~scenes[id].is_end

FreeText ==
    /\ last'.op = "run_turn"
    /\ last'.input # NoInput
    /\ ~IsNumeric(last'.input)

\* C16: custom text in Scripted mode records the id and the text of the scene
\* current at the start of the turn as the anchor, switches the mode to
\* Generated and makes the one generation call of the turn with that text;
\* custom text in Generated mode makes the call and leaves the anchor alone.
C16_FreeTextRecordsAnchor ==
    [][FreeText
       => /\ (~in_dynamic_mode /\ CurrentSceneExists)
             => /\ saved_target_scene_id' = CurrentScene.id
                /\ target_scene_text' = CurrentScene.text
                /\ last'.generated
                /\ last'.mode_at_call
                /\ last'.last_player_action = last'.input
          /\ in_dynamic_mode
             => /\ last'.generated
                /\ last'.last_player_action = last'.input
                /\ UNCHANGED <<saved_target_scene_id, target_scene_text>>]_vars

C16_Witness ==
    /\ RanTurn /\ last.input = <<"look around">> /\ last.generated
    /\ last.raised = ""
    /\ global_turn_count = 2
    /\ saved_target_scene_id = "hall"
    /\ target_scene_text = <<"A long hall.">>
    /\ in_dynamic_mode

\* a turn without custom text that starts in Scripted mode and resolves to a
\* scene named by the takeover convention
TakeoverTurn ==
    /\ last'.op = "run_turn"
    /\ ~in_dynamic_mode
    /\ CurrentSceneExists
    /\ last'.input = NoInput \/ IsNumeric(last'.input)
    /\ ResolvedExists
    /\ scenes[ResolvedId].id \in TakeoverIds

Range(f) == {f[i] : i \in DOMAIN f}

C18_GeneratedSceneIsCurrent ==
    Absorbed =>
        /\ CurrentSceneExists
        /\ CurrentScene.id = player.current_scene_id
        /\ CurrentScene.text = last.text
        /\ last.raw.kind = "ok" => player.current_scene_id = last.raw.id

C18_Witness ==
    /\ Absorbed
    /\ last.raw.id = "hall"
    /\ player.current_scene_id = "hall"
    /\ CurrentScene.text = GenText
    /\ CurrentScene.text # WorldScenes["hall"].text

\* C19: in every turn in which the counter reaches max_turns on a scene that
\* is not terminal, whatever the input and the mode, the mode is Generated
\* when the generation call is made and the call is handed the conclude
\* instruction, not the player's input.
C19_BudgetPassesConcludeInstruction ==
    [][(last'.op = "run_turn" /\ CurrentSceneExists /\ BudgetRuleFiresOn(ResolvedId))
       => /\ last'.generated
          /\ last'.mode_at_call
          /\ last'.last_player_action = BudgetInput]_vars

RECURSIVE Ascending(_)
Ascending(S) == IF S = {} THEN <<>> ELSE <<Min(S)>> \o Ascending(S \ {Min(S)})

RECURSIVE ApplyInOrder(_, _)
ApplyInOrder(p, idxs) ==
    IF idxs = <<>> THEN p
    ELSE ApplyInOrder(_apply_effect(p, Triggers[Head(idxs)].result), Tail(idxs))

\* a turn that starts in Scripted mode, resolves to a scene and stops there
ScriptedTurnReturns ==
    /\ last'.op = "run_turn"
    /\ ~in_dynamic_mode
    /\ CurrentSceneExists
    /\ last'.input = NoInput \/ IsNumeric(last'.input)
    /\ ResolvedExists
    /\ ~last'.generated
    /\ last'.raised = ""

\* C20: the triggers that fire in a Scripted turn are triggers of the scene
\* the turn resolves to; their effects are applied one after the other in
\* trigger-list order, each clamped before the next is added, and their
\* descriptions are returned in that same order.
C20_EffectsInTriggerOrder ==
    [][ScriptedTurnReturns
       => \E S \in SUBSET {i \in 1..Len(Triggers) : Triggers[i].condition = ResolvedId} :
             /\ last'.fired = [k \in 1..Cardinality(S) |->
                                 Triggers[Ascending(S)[k]].narrative_description]
             /\ player' = ApplyInOrder([player EXCEPT !.current_scene_id = ResolvedId],
                                       Ascending(S))]_vars

C20_Witness ==
    /\ RanTurn /\ ~last.generated /\ last.raised = ""
    /\ global_turn_count = 1
    /\ player.current_scene_id = "hall"
    /\ last.fired = << <<"A trap snaps.">>, <<"Warm steam soothes.">> >>
    /\ player.hp = HP_MAX

----------------------------------------------------------------------------
(* Claims on triggers, reset and persistence *)

\* C21: whatever the random source draws, a trigger with probability 1.0
\* fires in every check on its own scene and no trigger fires on another
\* scene; the certain trigger of "hall" alone takes a player with 50 hp to
\* 40 hp.
C21_CertainTriggersFire ==
    [][last'.op = "_handle_events"
       => /\ \A i \in 1..Len(Triggers) :
                /\ (Triggers[i].condition = last'.scene_id
                      /\ Triggers[i].probability = 100)
                   => Triggers[i].narrative_description \in Range(last'.fired)
                /\ Triggers[i].condition # last'.scene_id
                   => Triggers[i].narrative_description \notin Range(last'.fired)
          /\ (last'.scene_id = "hall" /\ last'.fired = << <<"A trap snaps.">> >>
                /\ player.hp = 50)
             => player'.hp = 40
          /\ last'.fired = <<>> => player'.hp = player.hp]_vars

C21_Witness ==
    /\ last.op = "_handle_events"
    /\ last.checks = 1
    /\ last.scene_id = "hall"
    /\ last.draws[1] = 99
    /\ last.fired = << <<"A trap snaps.">> >>
    /\ player.hp = 40

\* C22: after reset_game the session is as a new one: the turn counter is 0,
\* the mode is Scripted, the anchor is cleared, the history window is empty,
\* no earlier snapshot is left in the file, scenes holds exactly the authored
\* scenes as loaded and the player is at the initial scene with the initial
\* stats.
C22_ResetIsFresh ==
    last.op = "reset_game" =>
        /\ global_turn_count = 0
        /\ ~in_dynamic_mode
        /\ saved_target_scene_id = NoneId
        /\ target_scene_text = NoneText
        /\ history_window = <<>>
        /\ snapshot \in {NoFile, EmptySnapshot}
        /\ DOMAIN scenes = AuthoredIds
        /\ scenes = WorldScenes
        /\ player = WorldPlayer
        /\ player.current_scene_id = InitialSceneId

\* a reset that found a snapshot on disk; it can only come from turns taken
C22_Witness ==
    /\ last.op = "reset_game"
    /\ snapshot = EmptySnapshot
    /\ scenes = WorldScenes
    /\ global_turn_count = 0

\* C23: when the process dies at any point inside save_snapshot, the file
\* holds the complete snapshot it held before the call or the complete new
\* one.
C23_SnapshotWriteIsAtomic ==
    last.op = "crashed" => snapshot \in {last.previous, last.doc}

\* how many of the calls the hook received are about the stat
NotifiedAbout(stat) ==
    Cardinality({k \in 1..Len(last'.notified) : last'.notified[k].stat = stat})

C24_WriteFailureDoesNotAbortTurn ==
    RanTurn => (last.raised # "OSError" /\ (last.raised = "" => last.text # NoneText))

----------------------------------------------------------------------------
(* Claims on the fallback scene, events in both modes, the anchor and the  *)
(* authored scenes                                                         *)

\* the turn stored what the parser makes of a result it could not use
FallbackSubstituted ==
    Absorbed /\ last.raw.kind \in {"unparsable", "bad_options"}

\* C26: the scene substituted for a failed generation is not an ending and
\* offers exactly two options.
C26_FallbackHasTwoOptions ==
    FallbackSubstituted =>
        (~CurrentScene.is_end /\ Len(CurrentScene.options) = 2)

\* C27: every turn that returns, in either mode, returns the description of
\* each trigger that is certain to fire on the scene the turn resulted in.
C27_EventsCheckedEveryTurn ==
    (RanTurn /\ last.raised = "" /\ CurrentSceneExists) =>
        \A i \in 1..Len(Triggers) :
            (Triggers[i].condition = player.current_scene_id
               /\ Triggers[i].probability = 100)
            => Triggers[i].narrative_description \in Range(last.fired)

\* C28: the recorded anchor id, when set, is the id of an authored scene.
C28_AnchorIsAuthored ==
    saved_target_scene_id # NoneId => saved_target_scene_id \in AuthoredIds

\* C29: whenever the mode is Generated an anchor is recorded and it names a
\* scene of the graph.
C29_GeneratedModeHasAnchor ==
    in_dynamic_mode =>
        (saved_target_scene_id # NoneId /\ saved_target_scene_id \in DOMAIN scenes)

\* C30: every authored scene stays in scenes as it was loaded, whatever id a
\* generation result carries.
C30_AuthoredScenesUntouched ==
    \A sid \in AuthoredIds : sid \in DOMAIN scenes /\ scenes[sid] = WorldScenes[sid]

----------------------------------------------------------------------------
(* Claims on what a turn keeps, writes and leaves alone *)

\* C31: between resets the set of scene ids in scenes never shrinks: every
\* id that was a key of scenes before a turn, the id of the scene current
\* before the turn among them, is a key of scenes after it.
C31_SceneIdsAccumulate ==
    [][last'.op # "reset_game"
       => /\ DOMAIN scenes \subseteq DOMAIN scenes'
          /\ CurrentSceneExists => player.current_scene_id \in DOMAIN scenes']_vars

\* two generated scenes with different ids, the earlier one still stored
C31_Witness ==
    /\ Absorbed
    /\ player.current_scene_id = FallbackSceneId
    /\ "g1" \in DOMAIN scenes
    /\ AuthoredIds \subseteq DOMAIN scenes

\* the snapshot file holds the state the orchestrator has in memory
SnapshotAgrees ==
    /\ snapshot.kind = "snapshot"
    /\ snapshot.player_state =
          [hp |-> player.hp, mana |-> player.mana, bullet |-> player.bullet,
           credits |-> player.credits, inventory |-> player.inventory]
    /\ snapshot.current_location = player.current_scene_id
    /\ snapshot.recent_history = history_window
    /\ snapshot.turn_count = global_turn_count

\* C32: after every run_turn call that returns, the snapshot agrees with the
\* state in memory: the player's stats after all effects of the turn, the
\* current scene id, the history window and the turn counter.
C32_SnapshotAgreesWithState ==
    (RanTurn /\ last.raised = "") => SnapshotAgrees

\* C33: a run_turn call appends at most one entry to the history window, in
\* either mode and for every input.
C33_AtMostOneHistoryEntry ==
    [][last'.op = "run_turn"
       => \/ history_window' = history_window
          \/ AppendedOne(history_window, history_window',
                         history_window'[Len(history_window')])]_vars

\* the generation call of the turn came back with a well-formed result that
\* reports the anchor reached
ReachedReported ==
    /\ last'.generated
    /\ last'.raised = ""
    /\ last'.raw.kind = "ok"
    /\ last'.raw.reached

\* C34: the mode goes from Generated to Scripted only in a run_turn call whose
\* generation result reports the anchor reached (or by reset_game); a turn
\* whose generation result does not report it, or whose scene is terminal,
\* ends in Generated mode.
C34_ScriptedOnlyAfterReached ==
    [][/\ (in_dynamic_mode /\ ~in_dynamic_mode')
          => (last'.op = "reset_game" \/ (last'.op = "run_turn" /\ ReachedReported))
       /\ (last'.op = "run_turn" /\ last'.mode_at_call /\ ~in_dynamic_mode')
          => ReachedReported
       /\ (last'.op = "run_turn" /\ last'.generated /\ last'.raised = ""
             /\ (~last'.raw.reached
                   \/ scenes'[player'.current_scene_id].is_end))
          => in_dynamic_mode']_vars

\* an option followed in Generated mode, a result that reports the anchor
\* reached, and the mode back to Scripted
C34_Witness ==
    /\ Absorbed /\ last.input = <<"1">> /\ last.selected /\ last.mode_at_call
    /\ global_turn_count = 2
    /\ last.raw.reached /\ ~last.raw.game_over
    /\ ~in_dynamic_mode

Stats(p) == [stat \in StatNames |-> p[stat]]

\* the player after the effects of the triggers whose descriptions a turn
\* returned, applied in the order returned
RECURSIVE ApplyFired(_, _)
ApplyFired(p, descriptions) ==
    IF descriptions = <<>> THEN p
    ELSE LET i == CHOOSE k \in 1..Len(Triggers) :
                     Triggers[k].narrative_description = Head(descriptions)
         IN  ApplyFired(_apply_effect(p, Triggers[i].result), Tail(descriptions))

\* the stat change the generation result of the turn carried, if one came back
AbsorbedStatChange == IF last'.raised = "" THEN last'.raw.stats ELSE NoEffect

\* C35: the stats of the player change only through _apply_effect: after a
\* run_turn call they are the stats before it with the effects of the fired
\* triggers and the stat change of the generation result applied;
\* _select_option leaves them alone, and a turn in which no trigger fires and
\* the generation result carries no stat change leaves stats and inventory
\* exactly as they were.
C35_StatsChangeOnlyByEffects ==
    [][last'.op = "run_turn"
       => /\ Stats(player')
               = Stats(_apply_effect(ApplyFired(player, last'.fired), AbsorbedStatChange))
          /\ ValidSelectIsCalled => Stats(SelectCall.self.player) = Stats(player)
          /\ (last'.fired = <<>> /\ AbsorbedStatChange = NoEffect)
             => /\ Stats(player') = Stats(player)
                /\ player'.inventory = player.inventory]_vars

\* an option followed and a scene generated in one turn, the stats untouched
C35_Witness ==
    /\ Absorbed /\ last.selected
    /\ last.fired = <<>> /\ last.raw.stats = NoEffect
    /\ Len(history_window) >= 2
    /\ player.current_scene_id = "g1"
    /\ Stats(player) = Stats(WorldPlayer)

----------------------------------------------------------------------------
(* Claims on the frame of _apply_effect, the game loop and option ids *)

\* C36: _apply_effect changes only stats that the effect map names: every
\* tracked stat that is not a key of the effect, the player's
\* current_scene_id and inventory, the mode, the anchor, the turn counter,
\* the history window and the scenes are the same after the call.
C36_EffectTouchesNamedStatsOnly ==
    [][last'.op = "_apply_effect"
       => /\ \A stat \in StatNames \ DOMAIN last'.effect : player'[stat] = player[stat]
          /\ player'.current_scene_id = player.current_scene_id
          /\ player'.inventory = player.inventory
          /\ UNCHANGED <<in_dynamic_mode, saved_target_scene_id, target_scene_text,
                         global_turn_count, history_window, scenes>>]_vars

\* a player loaded with 150 hp keeps it when an effect on mana is applied
C36_Witness ==
    /\ last.op = "_apply_effect"
    /\ last.applied = 1
    /\ last.effect = Effect("mana", -500)
    /\ player.mana = 0
    /\ player.hp = 150

\* the turn that just returned left a terminal scene or a player without hp
SessionOver ==
    /\ last.op = "run_turn"
    /\ last.raised = ""
    /\ CurrentSceneExists
    /\ CurrentScene.is_end \/ player.hp <= 0

\* C37: in the game loop, once a turn has left a terminal scene or a player
\* with hp <= 0, in either mode, no run_turn follows in that session: the
\* next step is RETRY or QUIT, RETRY is followed by reset_game, and reset_game
\* by a run_turn without input; every other run_turn follows a turn that left
\* the session open.
C37_NoTurnAfterTheEnd ==
    [][/\ SessionOver => last'.op \in {"retry", "quit"}
       /\ last.op = "retry" => last'.op = "reset_game"
       /\ last.op = "reset_game" => (last'.op = "run_turn" /\ last'.input = NoInput)
       /\ last'.op = "run_turn"
          => \/ last.op = "reset_game"
             \/ last.op = "run_turn" /\ last.raised = "" /\ ~SessionOver]_vars

\* the loop offers RETRY and QUIT on a scene that is not terminal, in
\* Generated mode, because the player has no hp left
C37_Witness ==
    /\ last.pc = "end_options"
    /\ in_dynamic_mode
    /\ CurrentSceneExists /\ ~CurrentScene.is_end
    /\ CurrentScene.options # <<>>
    /\ player.hp = 0

\* C38: in every scene of a world that loaded, the ids of the options are
\* pairwise distinct, so that a choice id names at most one option of a
\* scene.
C38_OptionIdsDistinct ==
    (Loaded /\ last.raised = "") =>
        \A sid \in DOMAIN scenes :
            \A i, j \in 1..Len(scenes[sid].options) :
                scenes[sid].options[i].id = scenes[sid].options[j].id => i = j

====
